---- MODULE Spec2Model ----
(***************************************************************************)
(* A model of the InsumerAPI MCP server (src/src/index.ts): a catalog of   *)
(* tools, each with a zod input schema and a handler that issues at most   *)
(* one HTTP request and relays the JSON response.                          *)
(*                                                                         *)
(* Spec runs the families of calls that cover the catalog; SpecSchema runs  *)
(* the families that probe the input schemas.  Both start with main()      *)
(* awaiting the transport connection.                                      *)
(*                                                                         *)
(* Text is a sequence of pieces.  Caller-supplied strings are sequences of *)
(* single characters; string literals of the source ("/merchants/",        *)
(* "limit") and numerals produced by String(n) are one piece each.         *)
(***************************************************************************)
EXTENDS Integers, Sequences, FiniteSets, TLC

\* Number of invocations the calling runtime issues in one run (they may
\* all be in flight at the same time).
MaxInv == 2

VARIABLES
    apiKey,     \* process.env.INSUMER_API_KEY ?? "", read once at startup
    workload,   \* which family of tool calls the calling runtime issues
    inv,        \* inv[i]: the i-th tools/call invocation and its progress
    proc        \* the process: transport connection, exit, lines on stderr

vars == <<apiKey, workload, inv, proc>>

Invocations == 1..MaxInv

-----------------------------------------------------------------------------
(* JSON values *)

EmptyObj == [f \in {} |-> 0]

\* a number-or-string union value (chain identifiers)
JNum(n) == [t |-> "num", n |-> n, s |-> <<>>]
JStr(s) == [t |-> "str", n |-> 0, s |-> s]

\* a number that is not an integer (n + 1/2), where a union value is expected
JFrac(n) == [t |-> "frac", n |-> n, s |-> <<>>]

Has(a, f) == f \in DOMAIN a

\* JavaScript truthiness of an optional string field: present and non-empty
Truthy(a, f) == Has(a, f) /\ a[f] # <<>>

RangeOf(s) == {s[k] : k \in DOMAIN s}

\* String(undefined), what a template literal or encodeURIComponent makes of
\* a field the arguments do not hold
Undefined == <<"undefined">>

\* args.f used as a string
Field(a, f) == IF Has(a, f) THEN a[f] ELSE Undefined

-----------------------------------------------------------------------------
(* Constants of the source *)

API_BASE == <<"https://api.insumermodel.com/v1">>

MissingKeyError ==
    <<"INSUMER_API_KEY", " environment variable is not set. Get a free key at ",
      "https://insumermodel.com/developers/">>

SOLANA == <<"s","o","l","a","n","a">>
XRPL   == <<"x","r","p","l">>
MERKLE == <<"m","e","r","k","l","e">>

UpperAlnum ==
    {"A","B","C","D","E","F","G","H","I","J","K","L","M","N","O","P","Q","R","S",
     "T","U","V","W","X","Y","Z","0","1","2","3","4","5","6","7","8","9"}

LowerAlpha ==
    {"a","b","c","d","e","f","g","h","i","j","k","l","m","n","o","p","q","r","s",
     "t","u","v","w","x","y","z"}

-----------------------------------------------------------------------------
(* The tool catalog *)

\* tools whose handler goes through apiCall
AuthOps ==
    {"insumer_attest", "insumer_wallet_trust", "insumer_batch_wallet_trust",
     "insumer_verify", "insumer_list_merchants", "insumer_get_merchant",
     "insumer_list_tokens", "insumer_check_discount", "insumer_credits",
     "insumer_buy_credits", "insumer_confirm_payment", "insumer_create_merchant",
     "insumer_merchant_status", "insumer_configure_tokens",
     "insumer_configure_nfts", "insumer_configure_settings",
     "insumer_publish_directory", "insumer_buy_merchant_credits",
     "insumer_request_domain_verification", "insumer_verify_domain",
     "insumer_acp_discount", "insumer_ucp_discount"}

\* tools whose handler calls fetch directly, with no credential
NoAuthOps ==
    {"insumer_jwks", "insumer_compliance_templates", "insumer_validate_code"}

Ops == AuthOps \cup NoAuthOps

\* tools whose handler wraps the parsed body with formatResult
FormatOps == AuthOps \cup {"insumer_compliance_templates"}

\* tools that strip the routing id from the body: const { id, ...body } = args
PathIdOps ==
    {"insumer_configure_tokens", "insumer_configure_nfts",
     "insumer_configure_settings", "insumer_buy_merchant_credits",
     "insumer_request_domain_verification"}

-----------------------------------------------------------------------------
(* Reusable zod schemas *)

\* (variant) a numeric range whose upper end is not enforced
WithinNoMax(n, lo, hi) == n >= lo

\* z.number().int().min(lo).max(hi)
Within(n, lo, hi) == n >= lo /\ n <= hi

\* (variant) an array whose minimum length is not enforced
CountAtMost(s, lo, hi) == Len(s) <= hi

\* z.array(...).min(lo).max(hi)
CountWithin(s, lo, hi) == Len(s) >= lo /\ Len(s) <= hi

\* (variant) an enumeration declared as a free string
OneOfAnything(v, S) == TRUE

\* z.enum([...])
OneOf(v, S) == v \in S

\* the value of one decimal digit
DigitValue(c) ==
    CASE c = "0" -> 0 [] c = "1" -> 1 [] c = "2" -> 2 [] c = "3" -> 3
      [] c = "4" -> 4 [] c = "5" -> 5 [] c = "6" -> 6 [] c = "7" -> 7
      [] c = "8" -> 8 [] c = "9" -> 9

\* Number(s) for a string of decimal digits
RECURSIVE Number(_)
Number(s) ==
    IF s = <<>> THEN 0
    ELSE 10 * Number(SubSeq(s, 1, Len(s) - 1)) + DigitValue(s[Len(s)])

\* z.union([z.number().int(), z.literal("solana"), z.literal("xrpl")])
ChainId(v) ==
    \/ v.t = "num"
    \/ v.t = "str" /\ v.s \in {SOLANA, XRPL}

OnboardingChains == {1, 56, 8453, 43114, 137, 42161, 10, 88888, 1868, 98866, 480}

\* z.enum(["1", "56", ...]): the numerals accepted in place of the numbers
OnboardingEnum ==
    {<<"1">>, <<"5","6">>, <<"8","4","5","3">>, <<"4","3","1","1","4">>,
     <<"1","3","7">>, <<"4","2","1","6","1">>, <<"1","0">>,
     <<"8","8","8","8","8">>, <<"1","8","6","8">>, <<"9","8","8","6","6">>,
     <<"4","8","0">>}

OnboardingChainId(v) ==
    \/ v.t = "str" /\ v.s \in OnboardingEnum
    \/ v.t = "num" /\ v.n \in OnboardingChains
    \/ v.t = "str" /\ v.s \in {SOLANA, XRPL}

\* the output of OnboardingChainId for an accepted value: .transform(Number)
\* turns a numeral of the enumeration into its number
OnboardingChainIdOutput(v) ==
    IF v.t = "str" /\ v.s \in OnboardingEnum THEN JNum(Number(v.s)) ELSE v

UsdcChains == {1, 8453, 137, 42161, 10, 56, 43114}

\* (variant) the settlement operations checked against the onboarding chains
UsdcChainIdAsOnboarding(v) == OnboardingChainId(v)

UsdcEnum ==
    {<<"1">>, <<"8","4","5","3">>, <<"1","3","7">>, <<"4","2","1","6","1">>,
     <<"1","0">>, <<"5","6">>, <<"4","3","1","1","4">>}

UsdcChainId(v) ==
    \/ v.t = "str" /\ v.s \in UsdcEnum
    \/ v.t = "num" /\ v.n \in UsdcChains
    \/ v.t = "str" /\ v.s \in {SOLANA, XRPL}

\* the output of UsdcChainId for an accepted value
UsdcChainIdOutput(v) ==
    IF v.t = "str" /\ v.s \in UsdcEnum THEN JNum(Number(v.s)) ELSE v

TierSchema(t) ==
    /\ {"name", "threshold", "discount"} \subseteq DOMAIN t
    /\ Len(t.name) <= 30
    /\ t.threshold > 0
    /\ Within(t.discount, 1, 50)

TokenConfigSchema(c) ==
    /\ {"symbol", "chainId", "contractAddress", "tiers"} \subseteq DOMAIN c
    /\ Len(c.symbol) <= 10
    /\ OnboardingChainId(c.chainId)
    /\ Has(c, "decimals") => Within(c.decimals, 0, 18)
    /\ Has(c, "currency") => Len(c.currency) <= 3
    /\ CountWithin(c.tiers, 1, 4)
    /\ \A k \in DOMAIN c.tiers : TierSchema(c.tiers[k])

NftCollectionSchema(c) ==
    /\ {"name", "contractAddress", "chainId", "discount"} \subseteq DOMAIN c
    /\ Len(c.name) <= 50
    /\ OnboardingChainId(c.chainId)
    /\ Within(c.discount, 1, 50)

(* Enumeration literals of the schemas, as caller-supplied text *)

TOKEN_BALANCE == <<"t","o","k","e","n","_","b","a","l","a","n","c","e">>

NFT_OWNERSHIP == <<"n","f","t","_","o","w","n","e","r","s","h","i","p">>

EAS_ATTESTATION == <<"e","a","s","_","a","t","t","e","s","t","a","t","i","o","n">>

FARCASTER_ID == <<"f","a","r","c","a","s","t","e","r","_","i","d">>

HIGHEST == <<"h","i","g","h","e","s","t">>

STACK == <<"s","t","a","c","k">>

STR_TRUE == <<"t","r","u","e">>

STR_FALSE == <<"f","a","l","s","e">>

TOKEN == <<"t","o","k","e","n">>

NFT == <<"n","f","t">>

ConditionTypes == {TOKEN_BALANCE, NFT_OWNERSHIP, EAS_ATTESTATION, FARCASTER_ID}

Templates ==
    {<<"c","o","i","n","b","a","s","e","_","v","e","r","i","f","i","e","d","_","a","c","c","o","u","n","t">>,
     <<"c","o","i","n","b","a","s","e","_","v","e","r","i","f","i","e","d","_","c","o","u","n","t","r","y">>,
     <<"c","o","i","n","b","a","s","e","_","o","n","e">>,
     <<"g","i","t","c","o","i","n","_","p","a","s","s","p","o","r","t","_","s","c","o","r","e">>,
     <<"g","i","t","c","o","i","n","_","p","a","s","s","p","o","r","t","_","a","c","t","i","v","e">>}

-----------------------------------------------------------------------------
(* Per-tool input schemas: the shape handed to server.tool *)

IsNull(v) == DOMAIN v = {"null"}

Null == [null |-> TRUE]

\* an element of insumer_attest's conditions array
ConditionSchema(c) ==
    /\ Has(c, "type") /\ OneOf(c.type, ConditionTypes)
    /\ Has(c, "chainId") => ChainId(c.chainId)
    /\ Has(c, "decimals") => Within(c.decimals, 0, 18)
    /\ Has(c, "label") => Len(c.label) <= 100
    /\ Has(c, "template") => OneOf(c.template, Templates)

\* /^[a-zA-Z0-9_-]+$/
IsCompanyId(s) ==
    /\ Len(s) >= 1
    /\ \A k \in DOMAIN s : s[k] \in UpperAlnum \cup LowerAlpha \cup {"_", "-"}

\* (variant) the pattern without its end anchor, /^INSR-[A-Z0-9]{5}/
IsDiscountCodeUnanchored(s) ==
    /\ Len(s) >= 10
    /\ SubSeq(s, 1, 5) = <<"I","N","S","R","-">>
    /\ \A k \in 6..10 : s[k] \in UpperAlnum

\* /^INSR-[A-Z0-9]{5}$/
IsDiscountCode(s) ==
    /\ Len(s) = 10
    /\ SubSeq(s, 1, 5) = <<"I","N","S","R","-">>
    /\ \A k \in 6..10 : s[k] \in UpperAlnum

UsdcPaymentSchema(u) ==
    /\ Has(u, "enabled") /\ u.enabled \in BOOLEAN
    /\ Has(u, "preferredChainId") => UsdcChainId(u.preferredChainId)

ItemsSchema(items) ==
    \A k \in DOMAIN items : {"path", "amount"} \subseteq DOMAIN items[k]

\* the fields each tool's schema declares
SchemaKeys(op) ==
    CASE op = "insumer_attest" ->
            {"wallet", "solanaWallet", "xrplWallet", "proof", "conditions"}
      [] op = "insumer_wallet_trust" ->
            {"wallet", "solanaWallet", "xrplWallet", "proof"}
      [] op = "insumer_batch_wallet_trust" -> {"wallets", "proof"}
      [] op = "insumer_verify" ->
            {"merchantId", "wallet", "solanaWallet", "xrplWallet"}
      [] op = "insumer_list_merchants" -> {"token", "verified", "limit", "offset"}
      [] op = "insumer_list_tokens" -> {"chain", "symbol", "type"}
      [] op = "insumer_check_discount" ->
            {"merchant", "wallet", "solanaWallet", "xrplWallet"}
      [] op = "insumer_buy_credits" -> {"txHash", "chainId", "amount"}
      [] op = "insumer_confirm_payment" -> {"code", "txHash", "chainId", "amount"}
      [] op = "insumer_create_merchant" -> {"companyName", "companyId", "location"}
      [] op = "insumer_configure_tokens" -> {"id", "ownToken", "partnerTokens"}
      [] op = "insumer_configure_nfts" -> {"id", "nftCollections"}
      [] op = "insumer_configure_settings" ->
            {"id", "discountMode", "discountCap", "usdcPayment"}
      [] op = "insumer_buy_merchant_credits" -> {"id", "txHash", "chainId", "amount"}
      [] op = "insumer_request_domain_verification" -> {"id", "domain"}
      [] op \in {"insumer_acp_discount", "insumer_ucp_discount"} ->
            {"merchantId", "wallet", "solanaWallet", "xrplWallet", "items"}
      [] op \in {"insumer_get_merchant", "insumer_merchant_status",
                 "insumer_publish_directory", "insumer_verify_domain"} -> {"id"}
      [] op = "insumer_validate_code" -> {"code"}
      [] OTHER -> {}

\* the fields a call must supply (neither .optional() nor absent from the shape)
RequiredKeys(op) ==
    CASE op = "insumer_attest" -> {"conditions"}
      [] op = "insumer_wallet_trust" -> {"wallet"}
      [] op = "insumer_batch_wallet_trust" -> {"wallets"}
      [] op = "insumer_verify" -> {"merchantId"}
      [] op = "insumer_check_discount" -> {"merchant"}
      [] op = "insumer_buy_credits" -> {"txHash", "chainId", "amount"}
      [] op = "insumer_confirm_payment" -> {"code", "txHash", "chainId", "amount"}
      [] op = "insumer_create_merchant" -> {"companyName", "companyId"}
      [] op = "insumer_configure_tokens" -> {"id"}
      [] op = "insumer_configure_nfts" -> {"id", "nftCollections"}
      [] op = "insumer_configure_settings" -> {"id"}
      [] op = "insumer_buy_merchant_credits" -> {"id", "txHash", "chainId", "amount"}
      [] op = "insumer_request_domain_verification" -> {"id", "domain"}
      [] op \in {"insumer_acp_discount", "insumer_ucp_discount"} -> {"merchantId"}
      [] op \in {"insumer_get_merchant", "insumer_merchant_status",
                 "insumer_publish_directory", "insumer_verify_domain"} -> {"id"}
      [] op = "insumer_validate_code" -> {"code"}
      [] OTHER -> {}

\* the constraints each tool's schema puts on the fields that are supplied
FieldsOK(op, a) ==
    CASE op = "insumer_attest" ->
            /\ Has(a, "proof") => OneOf(a.proof, {MERKLE})
            /\ CountWithin(a.conditions, 1, 10)
            /\ \A k \in DOMAIN a.conditions : ConditionSchema(a.conditions[k])
      [] op = "insumer_wallet_trust" ->
            Has(a, "proof") => OneOf(a.proof, {MERKLE})
      [] op = "insumer_batch_wallet_trust" ->
            /\ CountWithin(a.wallets, 1, 10)
            /\ \A k \in DOMAIN a.wallets : Has(a.wallets[k], "wallet")
            /\ Has(a, "proof") => OneOf(a.proof, {MERKLE})
      [] op = "insumer_list_merchants" ->
            /\ Has(a, "verified") => OneOf(a.verified, {STR_TRUE, STR_FALSE})
            /\ Has(a, "limit") => Within(a.limit, 1, 200)
            /\ Has(a, "offset") => a.offset >= 0
      [] op = "insumer_list_tokens" ->
            /\ Has(a, "chain") => ChainId(a.chain)
            /\ Has(a, "type") => OneOf(a.type, {TOKEN, NFT})
      [] op = "insumer_buy_credits" ->
            UsdcChainId(a.chainId) /\ a.amount >= 5
      [] op = "insumer_confirm_payment" ->
            UsdcChainId(a.chainId)
      [] op = "insumer_create_merchant" ->
            /\ Len(a.companyName) <= 100
            /\ Len(a.companyId) >= 2 /\ Len(a.companyId) <= 50
            /\ IsCompanyId(a.companyId)
            /\ Has(a, "location") => Len(a.location) <= 200
      [] op = "insumer_configure_tokens" ->
            /\ Has(a, "ownToken") =>
                   (IsNull(a.ownToken) \/ TokenConfigSchema(a.ownToken))
            /\ Has(a, "partnerTokens") =>
                   \A k \in DOMAIN a.partnerTokens :
                       TokenConfigSchema(a.partnerTokens[k])
      [] op = "insumer_configure_nfts" ->
            /\ CountWithin(a.nftCollections, 0, 4)
            /\ \A k \in DOMAIN a.nftCollections :
                   NftCollectionSchema(a.nftCollections[k])
      [] op = "insumer_configure_settings" ->
            /\ Has(a, "discountMode") => OneOf(a.discountMode, {HIGHEST, STACK})
            /\ Has(a, "discountCap") => Within(a.discountCap, 1, 100)
            /\ Has(a, "usdcPayment") =>
                   (IsNull(a.usdcPayment) \/ UsdcPaymentSchema(a.usdcPayment))
      [] op = "insumer_buy_merchant_credits" ->
            UsdcChainId(a.chainId) /\ a.amount >= 5
      [] op \in {"insumer_acp_discount", "insumer_ucp_discount"} ->
            Has(a, "items") => ItemsSchema(a.items)
      [] op = "insumer_validate_code" -> IsDiscountCode(a.code)
      [] OTHER -> TRUE

\* whether the arguments of a call pass the schema registered for the tool
SchemaAccepts(op, a) ==
    /\ RequiredKeys(op) \subseteq DOMAIN a
    /\ DOMAIN a \subseteq SchemaKeys(op)
    /\ FieldsOK(op, a)

\* the output of TokenConfigSchema and of NftCollectionSchema: the object
\* with its chainId replaced by the output of OnboardingChainId
ConfigOutput(c) ==
    [f \in DOMAIN c |->
        IF f = "chainId" THEN OnboardingChainIdOutput(c[f]) ELSE c[f]]

\* the output of the usdcPayment object
UsdcPaymentOutput(u) ==
    [f \in DOMAIN u |->
        IF f = "preferredChainId" THEN UsdcChainIdOutput(u[f]) ELSE u[f]]

\* the args a handler receives: the output of the tool's schema for accepted
\* arguments, which differs from the input where a schema transforms
ParsedArgs(op, a) ==
    CASE op = "insumer_configure_tokens" ->
            [f \in DOMAIN a |->
                CASE f = "ownToken" ->
                        IF IsNull(a[f]) THEN a[f] ELSE ConfigOutput(a[f])
                  [] f = "partnerTokens" ->
                        [k \in DOMAIN a[f] |-> ConfigOutput(a[f][k])]
                  [] OTHER -> a[f]]
      [] op = "insumer_configure_nfts" ->
            [f \in DOMAIN a |->
                IF f = "nftCollections"
                    THEN [k \in DOMAIN a[f] |-> ConfigOutput(a[f][k])]
                    ELSE a[f]]
      [] op = "insumer_configure_settings" ->
            [f \in DOMAIN a |->
                IF f = "usdcPayment" /\ ~IsNull(a[f])
                    THEN UsdcPaymentOutput(a[f]) ELSE a[f]]
      [] op \in {"insumer_buy_credits", "insumer_confirm_payment",
                 "insumer_buy_merchant_credits"} ->
            [f \in DOMAIN a |->
                IF f = "chainId" THEN UsdcChainIdOutput(a[f]) ELSE a[f]]
      [] OTHER -> a

-----------------------------------------------------------------------------
(* Text conversions *)

\* String(n) for an integer n: its decimal numeral, one piece
NumText(n) == <<ToString(n)>>

\* String(v) for a number-or-string union value
UnionText(v) == IF v.t = "num" THEN NumText(v.n) ELSE v.s

\* encodeURIComponent on one character: unreserved characters are kept, the
\* others become their %XX escape (the reserved characters of the model's
\* alphabet are listed)
PctEncode(c) ==
    CASE c = "/" -> "%2F"
      [] c = "?" -> "%3F"
      [] c = "#" -> "%23"
      [] c = "&" -> "%26"
      [] c = "=" -> "%3D"
      [] c = "%" -> "%25"
      [] c = " " -> "%20"
      [] OTHER -> c

EncodeURIComponent(s) == [k \in DOMAIN s |-> PctEncode(s[k])]

\* application/x-www-form-urlencoded serialisation of one character, as
\* URLSearchParams.toString() does it: a space becomes "+"
FormEncode(c) == IF c = " " THEN "+" ELSE PctEncode(c)

FormEncodeText(s) == [k \in DOMAIN s |-> FormEncode(s[k])]

\* URLSearchParams.toString(): name=value pairs joined with "&"
RECURSIVE ParamsToString(_)
ParamsToString(ps) ==
    IF ps = <<>> THEN <<>>
    ELSE <<ps[1][1], "=">> \o FormEncodeText(ps[1][2])
         \o (IF Len(ps) > 1 THEN <<"&">> \o ParamsToString(Tail(ps)) ELSE <<>>)

\* (variant) a serialisation that leaves out the nullable fields set to null
JSONStringifyDroppingNull(obj) ==
    {<<f, obj[f]>> :
        f \in {g \in DOMAIN obj :
                  ~(g \in {"ownToken", "usdcPayment"} /\ DOMAIN obj[g] = {"null"})}}

\* JSON.stringify of a request body: the object's members; a key whose value
\* is undefined (an absent optional field) has no member
JSONStringify(obj) == {<<f, obj[f]>> : f \in DOMAIN obj}

\* A parsed response body is a sequence of members <<key, value>>, each value
\* the text of a JSON literal.
Quote(s) == <<"\"">> \o s \o <<"\"">>

RECURSIVE MembersText(_)
MembersText(ms) ==
    IF ms = <<>> THEN <<>>
    ELSE Quote(<<ms[1][1]>>) \o <<":">> \o ms[1][2]
         \o (IF Len(ms) > 1 THEN <<",">> \o MembersText(Tail(ms)) ELSE <<>>)

\* JSON.stringify(value, null, 2) of a parsed body
JSONText(ms) == <<"{">> \o MembersText(ms) \o <<"}">>

\* result.ok as a condition: the member ok is present and true
OkTruthy(ms) == \E k \in DOMAIN ms : ms[k] = <<"ok", <<"true">>>>

-----------------------------------------------------------------------------
(* Request construction, per handler *)

\* the URLSearchParams each GET listing handler fills, in the order of its
\* params.set calls
QueryParams(op, a) ==
    CASE op = "insumer_list_merchants" ->
            (IF Truthy(a, "token") THEN << <<"token", a.token>> >> ELSE <<>>)
         \o (IF Truthy(a, "verified") THEN << <<"verified", a.verified>> >> ELSE <<>>)
         \o (IF Has(a, "limit") THEN << <<"limit", NumText(a.limit)>> >> ELSE <<>>)
         \o (IF Has(a, "offset") THEN << <<"offset", NumText(a.offset)>> >> ELSE <<>>)
      [] op = "insumer_list_tokens" ->
            (IF Has(a, "chain") THEN << <<"chain", UnionText(a.chain)>> >> ELSE <<>>)
         \o (IF Truthy(a, "symbol") THEN << <<"symbol", a.symbol>> >> ELSE <<>>)
         \o (IF Truthy(a, "type") THEN << <<"type", a.type>> >> ELSE <<>>)
      [] op = "insumer_check_discount" ->
            << <<"merchant", Field(a, "merchant")>> >>
         \o (IF Truthy(a, "wallet") THEN << <<"wallet", a.wallet>> >> ELSE <<>>)
         \o (IF Truthy(a, "solanaWallet")
                THEN << <<"solanaWallet", a.solanaWallet>> >> ELSE <<>>)
         \o (IF Truthy(a, "xrplWallet")
                THEN << <<"xrplWallet", a.xrplWallet>> >> ELSE <<>>)
      [] OTHER -> <<>>

\* (variant) the "?" is appended whether or not any parameter was set
AlwaysQuery(qs) == <<"?">> \o qs

\* `${qs ? `?${qs}` : ""}`
OptionalQuery(qs) == IF qs # <<>> THEN <<"?">> \o qs ELSE <<>>

\* the path each handler passes to apiCall or appends to API_BASE
PathOf(op, a) ==
    CASE op = "insumer_jwks" -> <<"/jwks">>
      [] op = "insumer_attest" -> <<"/attest">>
      [] op = "insumer_compliance_templates" -> <<"/compliance/templates">>
      [] op = "insumer_wallet_trust" -> <<"/trust">>
      [] op = "insumer_batch_wallet_trust" -> <<"/trust/batch">>
      [] op = "insumer_verify" -> <<"/verify">>
      [] op = "insumer_list_merchants" ->
            <<"/merchants">> \o OptionalQuery(ParamsToString(QueryParams(op, a)))
      [] op = "insumer_get_merchant" ->
            <<"/merchants/">> \o EncodeURIComponent(Field(a, "id"))
      [] op = "insumer_list_tokens" ->
            <<"/tokens">> \o OptionalQuery(ParamsToString(QueryParams(op, a)))
      [] op = "insumer_check_discount" ->
            <<"/discount/check", "?">> \o ParamsToString(QueryParams(op, a))
      [] op = "insumer_credits" -> <<"/credits">>
      [] op = "insumer_buy_credits" -> <<"/credits/buy">>
      [] op = "insumer_confirm_payment" -> <<"/payment/confirm">>
      [] op = "insumer_create_merchant" -> <<"/merchants">>
      [] op = "insumer_merchant_status" ->
            <<"/merchants/">> \o EncodeURIComponent(Field(a, "id")) \o <<"/status">>
      [] op = "insumer_configure_tokens" ->
            <<"/merchants/">> \o EncodeURIComponent(Field(a, "id")) \o <<"/tokens">>
      [] op = "insumer_configure_nfts" ->
            <<"/merchants/">> \o EncodeURIComponent(Field(a, "id")) \o <<"/nfts">>
      [] op = "insumer_configure_settings" ->
            <<"/merchants/">> \o EncodeURIComponent(Field(a, "id")) \o <<"/settings">>
      [] op = "insumer_publish_directory" ->
            <<"/merchants/">> \o EncodeURIComponent(Field(a, "id")) \o <<"/directory">>
      [] op = "insumer_buy_merchant_credits" ->
            <<"/merchants/">> \o EncodeURIComponent(Field(a, "id")) \o <<"/credits">>
      [] op = "insumer_request_domain_verification" ->
            <<"/merchants/">> \o EncodeURIComponent(Field(a, "id")) \o <<"/domain-verification">>
      [] op = "insumer_verify_domain" ->
            <<"/merchants/">> \o EncodeURIComponent(Field(a, "id")) \o <<"/domain-verification">>
      [] op = "insumer_acp_discount" -> <<"/acp/discount">>
      [] op = "insumer_ucp_discount" -> <<"/ucp/discount">>
      [] op = "insumer_validate_code" ->
            <<"/codes/">> \o EncodeURIComponent(Field(a, "code"))
      [] OTHER -> <<>>

\* the HTTP method of each handler's request (fetch without init is a GET)
MethodOf(op) ==
    CASE op \in {"insumer_attest", "insumer_wallet_trust",
                 "insumer_batch_wallet_trust", "insumer_verify",
                 "insumer_buy_credits", "insumer_confirm_payment",
                 "insumer_create_merchant", "insumer_publish_directory",
                 "insumer_buy_merchant_credits",
                 "insumer_request_domain_verification",
                 "insumer_acp_discount", "insumer_ucp_discount"} -> "POST"
      [] op \in {"insumer_configure_tokens", "insumer_configure_nfts",
                 "insumer_configure_settings", "insumer_verify_domain"} -> "PUT"
      [] OTHER -> "GET"

\* (variant) the whole arguments object is sent as the body
WithId(a) == a

\* const { id, ...body } = args
WithoutId(a) == [f \in DOMAIN a \ {"id"} |-> a[f]]

\* whether the handler passes a third argument to apiCall
PassesBody(op) ==
    /\ MethodOf(op) \in {"POST", "PUT"}
    /\ op # "insumer_verify_domain"

\* the object the handler passes to apiCall as body
BodyOf(op, a) ==
    CASE op \in PathIdOps -> WithoutId(a)
      [] op = "insumer_publish_directory" -> EmptyObj
      [] PassesBody(op) -> a
      [] OTHER -> EmptyObj

\* (variant) apiCall sending the content type only
HeadersWithoutKey(op, key) == {<<"Content-Type", "application/json">>}

\* the headers of the request
HeadersOf(op, key) ==
    CASE op \in AuthOps ->
            {<<"Content-Type", "application/json">>, <<"X-API-Key", key>>}
      [] op = "insumer_compliance_templates" -> {<<"Accept", "application/json">>}
      [] OTHER -> {}

NoRequest ==
    [method |-> "", url |-> <<>>, headers |-> {}, hasBody |-> FALSE, body |-> {}]

\* the request handed to fetch
RequestOf(op, a, key) ==
    [method  |-> MethodOf(op),
     url     |-> API_BASE \o PathOf(op, a),
     headers |-> HeadersOf(op, key),
     hasBody |-> PassesBody(op),
     body    |-> IF PassesBody(op) THEN JSONStringify(BodyOf(op, a)) ELSE {}]

-----------------------------------------------------------------------------
(* What fetch makes of the URL string: the path the request line carries *)

\* a literal of the source that is part of an id-bearing URL, cut at its "/"
Explode(piece) ==
    CASE piece = "https://api.insumermodel.com/v1" ->
            <<"https://api.insumermodel.com", "/", "v1">>
      [] piece = "/merchants/" -> <<"/", "merchants", "/">>
      [] piece = "/codes/" -> <<"/", "codes", "/">>
      [] piece = "/status" -> <<"/", "status">>
      [] piece = "/tokens" -> <<"/", "tokens">>
      [] piece = "/nfts" -> <<"/", "nfts">>
      [] piece = "/settings" -> <<"/", "settings">>
      [] piece = "/directory" -> <<"/", "directory">>
      [] piece = "/credits" -> <<"/", "credits">>
      [] piece = "/domain-verification" -> <<"/", "domain-verification">>
      [] OTHER -> <<piece>>

RECURSIVE ExplodeAll(_)
ExplodeAll(t) == IF t = <<>> THEN <<>> ELSE Explode(Head(t)) \o ExplodeAll(Tail(t))

\* the path of an exploded URL: what follows the origin, up to the first "?"
\* or "#"
PathPart(t) ==
    LET stops == {k \in DOMAIN t : t[k] \in {"?", "#"}}
        end == IF stops = {} THEN Len(t)
               ELSE (CHOOSE k \in stops : \A m \in stops : k <= m) - 1
    IN SubSeq(t, 2, end)

\* the segments of a path that begins with "/"
RECURSIVE SplitAtSlashes(_)
SplitAtSlashes(t) ==
    IF t = <<>> THEN <<>>
    ELSE LET rest == Tail(t)
             slashes == {k \in DOMAIN rest : rest[k] = "/"}
             cut == IF slashes = {} THEN Len(rest) + 1
                    ELSE CHOOSE k \in slashes : \A m \in slashes : k <= m
         IN <<SubSeq(rest, 1, cut - 1)>>
                \o SplitAtSlashes(SubSeq(rest, cut, Len(rest)))

\* the URL parser's treatment of dot segments: ".." drops the segment before
\* it, "." is dropped, and either one in last place leaves an empty segment
RECURSIVE RemoveDotSegments(_, _)
RemoveDotSegments(segs, out) ==
    IF segs = <<>> THEN out
    ELSE LET seg == Head(segs)
             trailing == IF Len(segs) = 1 THEN << <<>> >> ELSE <<>>
         IN IF seg = <<".", ".">>
                THEN RemoveDotSegments(Tail(segs),
                         (IF out = <<>> THEN out
                          ELSE SubSeq(out, 1, Len(out) - 1)) \o trailing)
            ELSE IF seg = <<".">>
                THEN RemoveDotSegments(Tail(segs), out \o trailing)
            ELSE RemoveDotSegments(Tail(segs), Append(out, seg))

\* the path segments of the request fetch sends for a URL string
WirePath(url) ==
    RemoveDotSegments(SplitAtSlashes(PathPart(ExplodeAll(url))), <<>>)

-----------------------------------------------------------------------------
(* apiCall and formatResult *)

\* (variant) apiCall without its credential check
NeverShortCircuits(op, key) == FALSE

\* (variant) the credential check applied to every tool, no-auth ones too
ShortCircuitsEveryTool(op, key) == key = ""

\* if (!apiKey) return { ok: false, error: "INSUMER_API_KEY ..." }
ApiCallShortCircuits(op, key) == op \in AuthOps /\ key = ""

MissingKeyEnvelope ==
    << <<"ok", <<"false">>>>, <<"error", Quote(MissingKeyError)>> >>

NoResult == [kind |-> "none", text |-> <<>>, isError |-> FALSE]

\* (variant) formatResult relaying the envelope's first two members only
FormatResultTrimmed(ms) ==
    [kind |-> "content",
     text |-> JSONText(SubSeq(ms, 1, IF Len(ms) < 2 THEN Len(ms) ELSE 2)),
     isError |-> ~OkTruthy(ms)]

\* formatResult: the same text either way, isError: true unless result.ok
FormatResult(ms) ==
    [kind |-> "content", text |-> JSONText(ms), isError |-> ~OkTruthy(ms)]

\* the return of insumer_jwks and insumer_validate_code: content only
PlainResult(ms) ==
    [kind |-> "content", text |-> JSONText(ms), isError |-> FALSE]

\* what a handler returns for a parsed body
HandlerResult(op, ms) ==
    IF op \in FormatOps THEN FormatResult(ms) ELSE PlainResult(ms)

\* the schema rejected the arguments: the handler is never called
Rejection == [kind |-> "rejection", text |-> <<"Invalid arguments">>, isError |-> FALSE]

\* the handler's promise rejected with the error of fetch or of res.json()
Exception(what) == [kind |-> "exception", text |-> <<what>>, isError |-> FALSE]

-----------------------------------------------------------------------------
(* The upstream service and the network *)

HttpStatuses == {200, 500}

OkBody == << <<"ok", <<"true">>>>, <<"data", <<"1">>>> >>

FailBody == << <<"ok", <<"false">>>>, <<"error", Quote(<<"x">>)>> >>

OkMetaBody ==
    << <<"ok", <<"true">>>>, <<"data", <<"2">>>>, <<"meta", Quote(<<"v","1">>)>> >>

UpstreamBodies == {OkBody, FailBody, OkMetaBody}

-----------------------------------------------------------------------------
(* The calls of the calling runtime *)

M1   == <<"m","1">>
W1   == <<"0","x","a">>
TX1  == <<"0","x","t">>
UNI  == <<"U","N","I">>
CODE == <<"I","N","S","R","-","A","B","1","2","C">>

Call(op, a) == [op |-> op, args |-> a]

Tier1 == [name |-> <<"G">>, threshold |-> 1, discount |-> 10]

TokenCfg1 ==
    [symbol |-> UNI, chainId |-> JNum(88888), contractAddress |-> W1,
     tiers |-> <<Tier1>>]

Cond1 == [type |-> TOKEN_BALANCE, contractAddress |-> W1, chainId |-> JNum(1)]

Nft1 == [name |-> <<"P">>, contractAddress |-> W1, chainId |-> JNum(1), discount |-> 10]

\* an array of n elements
Repeat(x, n) == [k \in 1..n |-> x]

\* a token configuration on a given chain, with n tiers
TokenCfg(chain, n) ==
    [symbol |-> UNI, chainId |-> chain, contractAddress |-> W1,
     tiers |-> Repeat(Tier1, n)]

Nft(chain) == [Nft1 EXCEPT !.chainId = chain]

Cond(type, chain) == [type |-> type, contractAddress |-> W1, chainId |-> chain]

ERC20 == <<"e","r","c","2","0">>
ZK    == <<"z","k">>
ETH   == <<"e","t","h">>

\* The calling runtime issues the calls of one family per run; the families
\* together cover the 25 tools, with accepted and rejected arguments.
Workloads ==
    {"noauth", "account", "merchants", "listing", "tokens", "discount",
     "configure", "settings", "verification", "commerce", "directory"}

CallsOf(w) ==
    CASE w = "noauth" ->
            {Call("insumer_jwks", EmptyObj),
             Call("insumer_compliance_templates", EmptyObj),
             Call("insumer_validate_code", [code |-> CODE]),
             Call("insumer_validate_code", [code |-> <<"i","n","s","r">>])}
      [] w = "account" ->
            {Call("insumer_credits", EmptyObj),
             Call("insumer_buy_credits",
                  [txHash |-> TX1, chainId |-> JStr(SOLANA), amount |-> 10]),
             Call("insumer_buy_credits",
                  [txHash |-> TX1, chainId |-> JNum(1), amount |-> 4]),
             Call("insumer_confirm_payment",
                  [code |-> CODE, txHash |-> TX1, chainId |-> JNum(137),
                   amount |-> 10])}
      [] w = "merchants" ->
            {Call("insumer_list_merchants", EmptyObj),
             Call("insumer_list_merchants", [token |-> UNI, limit |-> 250]),
             Call("insumer_get_merchant", [id |-> M1]),
             Call("insumer_get_merchant", EmptyObj),
             Call("insumer_merchant_status", [id |-> M1])}
      [] w = "listing" ->
            {Call("insumer_list_merchants", [token |-> UNI]),
             Call("insumer_list_merchants", [token |-> <<>>, verified |-> STR_TRUE]),
             Call("insumer_list_merchants", [limit |-> 200, offset |-> 0])}
      [] w = "tokens" ->
            {Call("insumer_list_tokens", EmptyObj),
             Call("insumer_list_tokens", [chain |-> JNum(1), type |-> NFT]),
             Call("insumer_list_tokens", [chain |-> JStr(SOLANA), symbol |-> <<>>])}
      [] w = "discount" ->
            {Call("insumer_check_discount", [merchant |-> M1]),
             Call("insumer_check_discount",
                  [merchant |-> M1, wallet |-> W1, xrplWallet |-> <<>>]),
             Call("insumer_check_discount", [wallet |-> W1]),
             Call("insumer_verify", [merchantId |-> M1, wallet |-> W1])}
      [] w = "configure" ->
            {Call("insumer_configure_tokens",
                  [id |-> M1, partnerTokens |-> <<TokenCfg1>>]),
             Call("insumer_configure_nfts", [id |-> M1, nftCollections |-> <<>>]),
             Call("insumer_configure_settings", [id |-> M1])}
      [] w = "settings" ->
            {Call("insumer_configure_settings",
                  [id |-> M1, discountMode |-> STACK, discountCap |-> 20]),
             Call("insumer_configure_settings", [id |-> M1, discountCap |-> 0]),
             Call("insumer_buy_merchant_credits",
                  [id |-> M1, txHash |-> TX1, chainId |-> JNum(8453), amount |-> 5]),
             Call("insumer_request_domain_verification",
                  [id |-> M1, domain |-> <<"a",".","c","o">>])}
      [] w = "verification" ->
            {Call("insumer_attest", [wallet |-> W1, conditions |-> <<Cond1>>]),
             Call("insumer_attest", [wallet |-> W1, conditions |-> <<>>]),
             Call("insumer_wallet_trust", [wallet |-> W1]),
             Call("insumer_batch_wallet_trust", [wallets |-> <<[wallet |-> W1]>>])}
      [] w = "commerce" ->
            {Call("insumer_acp_discount", [merchantId |-> M1]),
             Call("insumer_ucp_discount",
                  [merchantId |-> M1,
                   items |-> <<[path |-> <<"$">>, amount |-> 100]>>]),
             Call("insumer_create_merchant",
                  [companyName |-> <<"A">>, companyId |-> <<"a","-","1">>])}
      [] w = "directory" ->
            {Call("insumer_publish_directory", [id |-> M1]),
             Call("insumer_verify_domain", [id |-> M1]),
             Call("insumer_verify_domain", EmptyObj)}
      [] w = "conditions" ->
            {Call("insumer_attest",
                  [wallet |-> W1, conditions |-> Repeat(Cond1, n)]) :
                n \in {0, 1, 10, 11}}
      [] w = "wallets" ->
            {Call("insumer_batch_wallet_trust",
                  [wallets |-> Repeat([wallet |-> W1], n)]) :
                n \in {0, 1, 10, 11}}
      [] w = "collections" ->
            {Call("insumer_configure_nfts",
                  [id |-> M1, nftCollections |-> Repeat(Nft1, n)]) :
                n \in {0, 4, 5}}
      [] w = "tiers" ->
            {Call("insumer_configure_tokens",
                  [id |-> M1, ownToken |-> TokenCfg(JNum(1), n)]) :
                n \in {0, 1, 4, 5}}
      [] w = "enums" ->
            {Call("insumer_configure_settings", [id |-> M1, discountMode |-> HIGHEST]),
             Call("insumer_configure_settings",
                  [id |-> M1, discountMode |-> <<"m","a","x">>]),
             Call("insumer_attest",
                  [wallet |-> W1, proof |-> MERKLE,
                   conditions |-> <<Cond(FARCASTER_ID, JNum(10))>>]),
             Call("insumer_attest",
                  [wallet |-> W1, conditions |-> <<Cond(ERC20, JNum(1))>>]),
             Call("insumer_attest",
                  [wallet |-> W1, proof |-> ZK, conditions |-> <<Cond1>>]),
             Call("insumer_wallet_trust", [wallet |-> W1, proof |-> ZK]),
             Call("insumer_attest",
                  [wallet |-> W1, conditions |-> <<Cond(NFT_OWNERSHIP, JStr(ETH))>>]),
             Call("insumer_list_tokens", [chain |-> JStr(ETH)])}
      [] w = "onboarding" ->
            {Call("insumer_configure_tokens",
                  [id |-> M1, ownToken |-> TokenCfg(JNum(88888), 1)]),
             Call("insumer_configure_tokens",
                  [id |-> M1,
                   ownToken |-> TokenCfg(JStr(<<"8","8","8","8","8">>), 1)]),
             Call("insumer_configure_tokens",
                  [id |-> M1, partnerTokens |-> <<TokenCfg(JNum(5), 1)>>]),
             Call("insumer_configure_tokens",
                  [id |-> M1, ownToken |-> TokenCfg(JStr(ETH), 1)]),
             Call("insumer_configure_nfts",
                  [id |-> M1, nftCollections |-> <<Nft(JStr(SOLANA))>>]),
             Call("insumer_configure_nfts",
                  [id |-> M1, nftCollections |-> <<Nft(JNum(999))>>]),
             Call("insumer_buy_credits",
                  [txHash |-> TX1, chainId |-> JNum(88888), amount |-> 10]),
             Call("insumer_attest",
                  [wallet |-> W1,
                   conditions |-> <<Cond(TOKEN_BALANCE, JNum(999))>>])}
      [] w = "settlement" ->
            {Call("insumer_buy_credits",
                  [txHash |-> TX1, chainId |-> JNum(88888), amount |-> 10]),
             Call("insumer_buy_credits",
                  [txHash |-> TX1, chainId |-> JStr(<<"8","4","5","3">>),
                   amount |-> 10]),
             Call("insumer_buy_credits",
                  [txHash |-> TX1, chainId |-> JStr(<<"8","8","8","8","8">>),
                   amount |-> 10]),
             Call("insumer_confirm_payment",
                  [code |-> CODE, txHash |-> TX1, chainId |-> JNum(1868),
                   amount |-> 10]),
             Call("insumer_buy_merchant_credits",
                  [id |-> M1, txHash |-> TX1, chainId |-> JNum(480), amount |-> 5]),
             Call("insumer_buy_merchant_credits",
                  [id |-> M1, txHash |-> TX1, chainId |-> JStr(XRPL), amount |-> 5]),
             Call("insumer_configure_settings",
                  [id |-> M1,
                   usdcPayment |-> [enabled |-> TRUE,
                                    preferredChainId |-> JNum(88888)]]),
             Call("insumer_configure_settings",
                  [id |-> M1,
                   usdcPayment |-> [enabled |-> TRUE,
                                    preferredChainId |-> JNum(10)]])}
      [] w = "chains" ->
            {Call("insumer_list_tokens", [chain |-> JNum(1)]),
             Call("insumer_list_tokens", [chain |-> JNum(0)]),
             Call("insumer_list_tokens", [chain |-> JNum(-1)]),
             Call("insumer_list_tokens", [chain |-> JFrac(1)]),
             Call("insumer_list_tokens", [chain |-> JStr(ETH)]),
             Call("insumer_attest",
                  [wallet |-> W1, conditions |-> <<Cond(TOKEN_BALANCE, JNum(0))>>]),
             Call("insumer_attest",
                  [wallet |-> W1, conditions |-> <<Cond(TOKEN_BALANCE, JFrac(1))>>])}
      [] w = "codes" ->
            {Call("insumer_validate_code", [code |-> CODE]),
             Call("insumer_validate_code",
                  [code |-> <<"I","N","S","R","-","0","0","0","0","0">>]),
             Call("insumer_validate_code",
                  [code |-> <<"I","N","S","R","-","a","b","1","2","c">>]),
             Call("insumer_validate_code",
                  [code |-> <<"I","N","S","R","-","A","B","1","2","C","D">>]),
             Call("insumer_validate_code",
                  [code |-> <<"I","N","S","R","-","A","B","1","2">>]),
             Call("insumer_validate_code",
                  [code |-> <<"X","I","N","S","R","-","A","B","1","2","C">>]),
             Call("insumer_validate_code",
                  [code |-> <<"I","N","S","R","-","A","B","/","2","C">>]),
             Call("insumer_validate_code", [code |-> <<>>])}
      [] w = "paging" ->
            {Call("insumer_list_merchants", [token |-> UNI, limit |-> 250]),
             Call("insumer_list_merchants", [limit |-> 201]),
             Call("insumer_list_merchants", [limit |-> 0]),
             Call("insumer_list_merchants", [offset |-> -1]),
             Call("insumer_list_merchants", [limit |-> 1, offset |-> -1]),
             Call("insumer_list_merchants", [limit |-> 1]),
             Call("insumer_list_merchants", [limit |-> 200, offset |-> 0])}
      [] w = "segments" ->
            {Call("insumer_get_merchant", [id |-> <<"a","/","b">>]),
             Call("insumer_merchant_status", [id |-> <<"a","?","b","#","c">>]),
             Call("insumer_verify_domain", [id |-> <<>>]),
             Call("insumer_validate_code",
                  [code |-> <<"I","N","S","R","-",".",".","/",".",".">>])}
      [] w = "dots" ->
            {Call("insumer_get_merchant", [id |-> <<".",".">>]),
             Call("insumer_merchant_status", [id |-> <<".",".">>]),
             Call("insumer_configure_settings", [id |-> <<".">>]),
             Call("insumer_validate_code", [code |-> <<".",".">>])}
      [] w = "nullable" ->
            {Call("insumer_configure_tokens", [id |-> M1, ownToken |-> Null]),
             Call("insumer_configure_tokens", [id |-> M1]),
             Call("insumer_configure_settings", [id |-> M1, usdcPayment |-> Null]),
             Call("insumer_configure_settings", [id |-> M1])}
      [] OTHER -> {}

\* The families that probe the input schemas: counts, enumerations, chain
\* sets, the code pattern, paging ranges and nullable fields.
SchemaWorkloads ==
    {"conditions", "wallets", "collections", "tiers", "enums", "onboarding",
     "settlement", "chains", "codes", "paging", "nullable"}

-----------------------------------------------------------------------------
(* State *)

IdleInvocation ==
    [pc |-> "idle", op |-> "", args |-> EmptyObj, sent |-> 0, req |-> NoRequest,
     status |-> 0, fault |-> "", body |-> <<>>, result |-> NoResult]

ApiKeys == {"", "insr_live_k"}

MissingKeyWarning ==
    "Warning: INSUMER_API_KEY not set. Tools requiring authentication will return errors."

FatalError == "Fatal error:"

\* the process once the module's top level has run and main() awaits
\* server.connect: the warning is on stderr when the key is empty
Started(key) ==
    [connect |-> "pending", running |-> TRUE, exitCode |-> 0,
     stderr |-> IF key = "" THEN <<MissingKeyWarning>> ELSE <<>>]

\* the state after the module's top level has run, for one family of calls
Startup(families) ==
    /\ apiKey \in ApiKeys
    /\ workload \in families
    /\ inv = [i \in Invocations |-> IdleInvocation]
    /\ proc = Started(apiKey)

Init == Startup(Workloads)

\* server.connect(transport) resolves: main() returns and the server serves
Connects ==
    /\ proc.running /\ proc.connect = "pending"
    /\ proc' = [proc EXCEPT !.connect = "ok"]
    /\ UNCHANGED <<apiKey, workload, inv>>

\* (variant) a catch handler that logs the error and lets the process live
ConnectFailsLogsOnly ==
    /\ proc.running /\ proc.connect = "pending"
    /\ proc' = [proc EXCEPT !.connect = "failed",
                            !.stderr = Append(@, FatalError)]
    /\ UNCHANGED <<apiKey, workload, inv>>

\* server.connect(transport) rejects: main().catch logs and exits with 1
ConnectFails ==
    /\ proc.running /\ proc.connect = "pending"
    /\ proc' = [proc EXCEPT !.connect = "failed",
                            !.stderr = Append(@, FatalError),
                            !.running = FALSE,
                            !.exitCode = 1]
    /\ UNCHANGED <<apiKey, workload, inv>>

\* (variant) a tool registered without its shape: nothing is checked
HandlerRunsUnchecked(op, a) == TRUE

\* server.tool(name, description, shape, handler): the handler runs only
\* for arguments the shape accepts
HandlerRuns(op, a) == SchemaAccepts(op, a)

\* the invocation once the arguments were refused
Refused(c) ==
    [IdleInvocation EXCEPT !.op = c.op, !.args = c.args,
                           !.pc = "rejected", !.result = Rejection]

\* the invocation once apiCall returned the missing-key envelope
ShortCircuited(c) ==
    [IdleInvocation EXCEPT !.op = c.op, !.args = c.args,
                           !.pc = "returned",
                           !.body = MissingKeyEnvelope,
                           !.result = HandlerResult(c.op, MissingKeyEnvelope)]

\* the invocation once its handler called fetch and suspended
Suspended(c, key) ==
    [IdleInvocation EXCEPT !.op = c.op, !.args = c.args,
                           !.pc = "fetching",
                           !.sent = @ + 1,
                           !.req = RequestOf(c.op, ParsedArgs(c.op, c.args), key)]

\* (variant) a response cache keyed by tool and arguments: a call whose twin
\* has already returned from the upstream is answered from the twin's result
DispatchCached(c, key) ==
    IF ~SchemaAccepts(c.op, c.args) THEN Refused(c)
    ELSE IF (c.op \in AuthOps /\ key = "") THEN ShortCircuited(c)
    ELSE IF \E j \in Invocations :
                /\ inv[j].pc = "returned" /\ inv[j].sent = 1
                /\ inv[j].op = c.op /\ inv[j].args = c.args
         THEN LET j == CHOOSE j \in Invocations :
                           /\ inv[j].pc = "returned" /\ inv[j].sent = 1
                           /\ inv[j].op = c.op /\ inv[j].args = c.args
              IN [inv[j] EXCEPT !.sent = 0, !.req = NoRequest, !.status = 0]
    ELSE Suspended(c, key)

\* (variant) the credential looked at before the arguments are checked
DispatchKeyFirst(c, key) ==
    IF c.op \in AuthOps /\ key = "" THEN ShortCircuited(c)
    ELSE IF ~SchemaAccepts(c.op, c.args) THEN Refused(c)
    ELSE Suspended(c, key)

\* an invocation from its arrival to the handler's first await
Dispatch(c, key) ==
    IF ~HandlerRuns(c.op, c.args) THEN Refused(c)
    ELSE IF ApiCallShortCircuits(c.op, key) THEN ShortCircuited(c)
    ELSE Suspended(c, key)

\* A tools/call request arrives.  The arguments are checked against the
\* tool's schema; only when they pass is the handler run, up to its first
\* await: either apiCall returns the missing-key envelope at once, or fetch
\* is called and the handler suspends.
CallTool(i, c) ==
    /\ proc.running /\ proc.connect = "ok"
    /\ inv[i].pc = "idle"
    /\ inv' = [inv EXCEPT ![i] = Dispatch(c, apiKey)]
    /\ UNCHANGED <<apiKey, workload, proc>>

\* (variant) a failed fetch is issued once more before giving up
FetchFailsAndRetries(i) ==
    /\ inv[i].pc = "fetching"
    /\ inv' = [inv EXCEPT ![i] =
           IF inv[i].sent < 2
               THEN [inv[i] EXCEPT !.sent = @ + 1]
               ELSE [inv[i] EXCEPT !.pc = "threw", !.fault = "network",
                                   !.result = Exception("TypeError: fetch failed")]]
    /\ UNCHANGED <<apiKey, workload, proc>>

\* fetch rejects (network failure): the await throws, nothing catches it
FetchFails(i) ==
    /\ inv[i].pc = "fetching"
    /\ inv' = [inv EXCEPT ![i].pc = "threw",
                          ![i].fault = "network",
                          ![i].result = Exception("TypeError: fetch failed")]
    /\ UNCHANGED <<apiKey, workload, proc>>

\* fetch resolves with a response of some status; the handler calls res.json()
FetchResolves(i, st) ==
    /\ inv[i].pc = "fetching"
    /\ inv' = [inv EXCEPT ![i].pc = "reading", ![i].status = st]
    /\ UNCHANGED <<apiKey, workload, proc>>

\* (variant) the parsed body kept in a module-level variable that every
\* handler writes and then formats: an invocation that resumes after another
\* has returned formats the other's body
BodyParsesSharedBuffer(i, ms) ==
    /\ inv[i].pc = "reading"
    /\ LET others == {j \in Invocations \ {i} :
                          inv[j].pc = "returned" /\ inv[j].sent = 1}
           seen == IF others = {} THEN ms
                   ELSE inv[CHOOSE j \in others : TRUE].body
       IN inv' = [inv EXCEPT ![i].pc = "returned",
                             ![i].body = ms,
                             ![i].result = HandlerResult(inv[i].op, seen)]
    /\ UNCHANGED <<apiKey, workload, proc>>

\* res.json() resolves with the parsed body; the handler returns its result
BodyParses(i, ms) ==
    /\ inv[i].pc = "reading"
    /\ inv' = [inv EXCEPT ![i].pc = "returned",
                          ![i].body = ms,
                          ![i].result = HandlerResult(inv[i].op, ms)]
    /\ UNCHANGED <<apiKey, workload, proc>>

\* res.json() rejects (the body is not JSON): the await throws
BodyIsNotJson(i) ==
    /\ inv[i].pc = "reading"
    /\ inv' = [inv EXCEPT ![i].pc = "threw",
                          ![i].fault = "notjson",
                          ![i].result = Exception("SyntaxError: not valid JSON")]
    /\ UNCHANGED <<apiKey, workload, proc>>

Next ==
    \/ Connects
    \/ ConnectFails
    \/ \E i \in Invocations :
           \/ \E c \in CallsOf(workload) : CallTool(i, c)
           \/ FetchFails(i)
           \/ \E st \in HttpStatuses : FetchResolves(i, st)
           \/ \E ms \in UpstreamBodies : BodyParses(i, ms)
           \/ BodyIsNotJson(i)

Spec == Init /\ [][Next]_vars

InitSchema == Startup(SchemaWorkloads)

\* the runs in which the calling runtime probes the input schemas
SpecSchema == InitSchema /\ [][Next]_vars

\* The families that put reserved characters and dot segments in the ids.
PathWorkloads == {"segments", "dots"}

InitPaths == Startup(PathWorkloads)

\* the runs in which the calling runtime probes the id-bearing routes
SpecPaths == InitPaths /\ [][Next]_vars

-----------------------------------------------------------------------------
(* Vocabulary of the properties *)

Called(i) == inv[i].pc # "idle"

Valid(i) == SchemaAccepts(inv[i].op, inv[i].args)

Ended(i) == inv[i].pc \in {"rejected", "returned", "threw"}

HeaderNames(r) == {h[1] : h \in r.headers}

Sent(i) == inv[i].sent = 1

\* the names of the parameters of a URL's query string
ParamNames(url) == {url[k] : k \in {n \in 1..(Len(url) - 1) : url[n + 1] = "="}}

\* the keys of a serialised JSON body
BodyKeys(r) == {m[1] : m \in r.body}

ListingOps ==
    {"insumer_list_merchants", "insumer_get_merchant", "insumer_list_tokens",
     "insumer_merchant_status", "insumer_check_discount", "insumer_credits"}

QueryOps == {"insumer_list_merchants", "insumer_list_tokens", "insumer_check_discount"}

\* the pieces of a text between its top-level "," pieces
RECURSIVE SplitAtCommas(_)
SplitAtCommas(t) ==
    IF t = <<>> THEN <<>>
    ELSE LET commas == {k \in DOMAIN t : t[k] = ","}
             cut == IF commas = {} THEN Len(t) + 1
                    ELSE CHOOSE k \in commas : \A m \in commas : k <= m
         IN <<SubSeq(t, 1, cut - 1)>> \o SplitAtCommas(SubSeq(t, cut + 1, Len(t)))

\* what a caller gets by parsing the text of a result as a JSON object whose
\* values are numbers, booleans or comma-free strings: the members, in order
JSONParse(text) ==
    LET segs == SplitAtCommas(SubSeq(text, 2, Len(text) - 1))
    IN [k \in DOMAIN segs |-> <<segs[k][2], SubSeq(segs[k], 5, Len(segs[k]))>>]

-----------------------------------------------------------------------------
(* C1 *)

\* C1: every tool dispatched through apiCall, called with accepted arguments
\* while no API key is configured, returns a result flagged isError whose
\* envelope has ok false and whose error text names INSUMER_API_KEY and the
\* signup location, and the invocation issues no network request.
C1_MissingKeyFailsWithoutNetwork ==
    \A i \in Invocations :
        (Called(i) /\ inv[i].op \in AuthOps /\ Valid(i) /\ apiKey = "") =>
            /\ inv[i].pc = "returned"
            /\ inv[i].result.kind = "content"
            /\ inv[i].result.isError
            /\ \E k \in DOMAIN inv[i].body : inv[i].body[k] = <<"ok", <<"false">>>>
            /\ {"INSUMER_API_KEY", "https://insumermodel.com/developers/"}
                   \subseteq RangeOf(inv[i].result.text)
            /\ inv[i].sent = 0
            /\ inv[i].req = NoRequest

C1_Witness ==
    \E i \in Invocations :
        /\ apiKey = ""
        /\ inv[i].op = "insumer_attest" /\ Valid(i)
        /\ inv[i].pc = "returned" /\ inv[i].result.isError /\ inv[i].sent = 0

-----------------------------------------------------------------------------
(* C2 *)

\* C2: an invocation whose arguments fail the tool's schema issues no
\* network request, and ends with a validation rejection, never with a
\* relayed upstream result.
C2_InvalidNeverReachesNetwork ==
    \A i \in Invocations :
        (Called(i) /\ ~Valid(i)) =>
            /\ inv[i].pc = "rejected"
            /\ inv[i].result.kind = "rejection"
            /\ inv[i].sent = 0
            /\ inv[i].req = NoRequest
            /\ inv[i].body = <<>>

C2_Witness ==
    \E i \in Invocations :
        /\ apiKey # ""
        /\ inv[i].op = "insumer_list_merchants"
        /\ Has(inv[i].args, "limit") /\ inv[i].args.limit = 250
        /\ inv[i].pc = "rejected" /\ inv[i].sent = 0

-----------------------------------------------------------------------------
(* C3 *)

\* C3: for every tool, the no-auth ones included, the returned result is
\* flagged isError if and only if the upstream envelope has ok false.
C3_ErrorFlagIffUpstreamNotOk ==
    \A i \in Invocations :
        inv[i].pc = "returned" =>
            (inv[i].result.isError <=> ~OkTruthy(inv[i].body))

-----------------------------------------------------------------------------
(* C4 *)

\* C4: with no API key configured, the no-auth tools (insumer_jwks,
\* insumer_compliance_templates, insumer_validate_code) issue their request,
\* without an X-API-Key header, and relay the upstream response, never the
\* missing-credential envelope.
C4_NoAuthToolsWorkWithoutKey ==
    \A i \in Invocations :
        (Called(i) /\ inv[i].op \in NoAuthOps /\ Valid(i) /\ apiKey = "") =>
            /\ inv[i].sent = 1
            /\ inv[i].req.url[1] = API_BASE[1]
            /\ "X-API-Key" \notin HeaderNames(inv[i].req)
            /\ inv[i].pc = "returned" =>
                   /\ inv[i].body \in UpstreamBodies
                   /\ inv[i].body # MissingKeyEnvelope
                   /\ inv[i].result.kind = "content"
                   /\ inv[i].result.text = JSONText(inv[i].body)

C4_Witness ==
    \E i \in Invocations :
        /\ apiKey = ""
        /\ inv[i].op = "insumer_validate_code"
        /\ inv[i].pc = "returned" /\ inv[i].body = OkBody /\ inv[i].sent = 1

-----------------------------------------------------------------------------
(* C5 *)

\* C5: when fetch fails or the upstream body is not JSON, the invocation
\* still ends by returning a result flagged isError; the handler does not
\* end in another way.
C5_TransportFailureReturnsFlaggedResult ==
    \A i \in Invocations :
        inv[i].fault # "" =>
            /\ inv[i].pc = "returned"
            /\ inv[i].result.kind = "content"
            /\ inv[i].result.isError

-----------------------------------------------------------------------------
(* C6 *)

\* C6: a response with a non-2xx status is returned flagged isError,
\* whatever the ok field of its body.
C6_Non2xxIsFlagged ==
    \A i \in Invocations :
        (inv[i].pc = "returned" /\ Sent(i) /\ inv[i].status \notin 200..299) =>
            inv[i].result.isError

-----------------------------------------------------------------------------
(* C7 *)

\* C7: an invocation issues at most one request, and exactly one when its
\* arguments are accepted and the credential it needs is present; after an
\* upstream failure or a transport error no further request is issued, and
\* the error reaches the caller as what it was: a transport error as that
\* error, an upstream failure as the upstream's body.
C7_OneShot ==
    \A i \in Invocations :
        /\ inv[i].sent <= 1
        /\ (Called(i) /\ Valid(i) /\ (inv[i].op \in NoAuthOps \/ apiKey # "")) =>
               inv[i].sent = 1
        /\ inv[i].fault = "network" =>
               /\ Ended(i)
               /\ inv[i].result = Exception("TypeError: fetch failed")
        /\ inv[i].fault = "notjson" =>
               /\ Ended(i)
               /\ inv[i].result = Exception("SyntaxError: not valid JSON")
        /\ (inv[i].pc = "returned" /\ Sent(i) /\ ~OkTruthy(inv[i].body)) =>
               inv[i].result.text = JSONText(inv[i].body)

C7_Witness ==
    \E i \in Invocations :
        /\ inv[i].op = "insumer_credits"
        /\ inv[i].fault = "network" /\ inv[i].pc = "threw" /\ inv[i].sent = 1

-----------------------------------------------------------------------------
(* C8 *)

\* C8: two calls of the same read-only listing or detail tool with the same
\* arguments make two requests, and each returned result is built from the
\* response to its own request: when the upstream answers differently, the
\* two results differ.
C8_NoCaching ==
    \A i, j \in Invocations :
        (/\ i # j /\ apiKey # ""
         /\ inv[i].op \in ListingOps /\ inv[j].op = inv[i].op
         /\ inv[j].args = inv[i].args /\ Valid(i)) =>
            /\ inv[i].sent = 1 /\ inv[j].sent = 1
            /\ inv[i].pc = "returned" =>
                   inv[i].result = FormatResult(inv[i].body)
            /\ (inv[i].pc = "returned" /\ inv[j].pc = "returned"
                   /\ inv[i].body # inv[j].body) =>
                   inv[i].result # inv[j].result

C8_Witness ==
    \E i, j \in Invocations :
        /\ inv[i].op = "insumer_get_merchant" /\ inv[j].op = "insumer_get_merchant"
        /\ inv[i].args = inv[j].args
        /\ inv[i].pc = "returned" /\ inv[j].pc = "returned"
        /\ inv[i].body = OkBody /\ inv[j].body = FailBody
        /\ inv[i].sent = 1 /\ inv[j].sent = 1
        /\ inv[i].result # inv[j].result

-----------------------------------------------------------------------------
(* C9 *)

\* C9: for the tools that take the merchant id out of their arguments
\* (configure_tokens, configure_nfts, configure_settings,
\* buy_merchant_credits, request_domain_verification), the body sent has no
\* id member, the id is in the path, and every other supplied field is a
\* member of the body.
C9_IdInPathNotInBody ==
    \A i \in Invocations :
        (inv[i].op \in PathIdOps /\ Sent(i)) =>
            /\ inv[i].req.hasBody
            /\ "id" \notin BodyKeys(inv[i].req)
            /\ SubSeq(inv[i].req.url, 1, 2 + Len(inv[i].args.id))
                   = API_BASE \o <<"/merchants/">> \o EncodeURIComponent(inv[i].args.id)
            /\ \A f \in DOMAIN inv[i].args \ {"id"} :
                   <<f, inv[i].args[f]>> \in inv[i].req.body

C9_Witness ==
    \E i \in Invocations :
        /\ inv[i].op = "insumer_configure_settings" /\ Sent(i)
        /\ DOMAIN inv[i].args = {"id", "discountMode", "discountCap"}
        /\ BodyKeys(inv[i].req) = {"discountMode", "discountCap"}

-----------------------------------------------------------------------------
(* C10 *)

\* C10: the query string of insumer_list_merchants, insumer_list_tokens and
\* insumer_check_discount has a parameter only for a field the caller
\* supplied, and when insumer_list_merchants or insumer_list_tokens is called
\* with no field the URL has no "?".
C10_QueryOnlySuppliedFields ==
    \A i \in Invocations :
        (inv[i].op \in QueryOps /\ Sent(i)) =>
            /\ ParamNames(inv[i].req.url) \subseteq DOMAIN inv[i].args
            /\ (inv[i].op # "insumer_check_discount" /\ DOMAIN inv[i].args = {}) =>
                   "?" \notin RangeOf(inv[i].req.url)

C10_Witness ==
    \E i, j \in Invocations :
        /\ inv[i].op = "insumer_list_merchants" /\ Sent(i)
        /\ DOMAIN inv[i].args = {"limit", "offset"}
        /\ ParamNames(inv[i].req.url) = {"limit", "offset"}
        /\ inv[j].op = "insumer_list_merchants" /\ Sent(j)
        /\ DOMAIN inv[j].args = {"token", "verified"}
        /\ ParamNames(inv[j].req.url) = {"verified"}

-----------------------------------------------------------------------------
(* C11 *)

\* C11: the text of a result returned after a request is the serialisation of
\* the whole parsed upstream body: it is one JSON object, parsing it gives
\* back the body member for member, the text is the same for the same body
\* whatever the tool, and between two invocations of one tool the error flag
\* differs only if the bodies differ in their ok member.
C11_BodyRelayedUnmodified ==
    \A i \in Invocations :
        (inv[i].pc = "returned" /\ Sent(i)) =>
            /\ inv[i].result.kind = "content"
            /\ Head(inv[i].result.text) = "{"
            /\ inv[i].result.text[Len(inv[i].result.text)] = "}"
            /\ JSONParse(inv[i].result.text) = inv[i].body
            /\ \A j \in Invocations :
                   (inv[j].pc = "returned" /\ Sent(j)) =>
                       /\ (inv[j].body = inv[i].body) =>
                              inv[j].result.text = inv[i].result.text
                       /\ (/\ inv[j].op = inv[i].op
                           /\ OkTruthy(inv[j].body) = OkTruthy(inv[i].body)) =>
                              inv[j].result.isError = inv[i].result.isError

C11_Witness ==
    \E i, j \in Invocations :
        /\ inv[i].op = "insumer_get_merchant" /\ inv[j].op = "insumer_get_merchant"
        /\ inv[i].pc = "returned" /\ Sent(i) /\ inv[i].body = OkMetaBody
        /\ inv[j].pc = "returned" /\ Sent(j) /\ inv[j].body = OkBody
        /\ Len(JSONParse(inv[i].result.text)) = 3
        /\ JSONParse(inv[i].result.text)[3] = <<"meta", Quote(<<"v","1">>)>>
        /\ inv[i].result.text # inv[j].result.text
        /\ ~inv[i].result.isError /\ ~inv[j].result.isError

-----------------------------------------------------------------------------
(* C12 *)

\* the counted array of a call with its bounds, <<length, minimum, maximum>>
Counted(op, a) ==
    CASE op = "insumer_attest" /\ Has(a, "conditions") ->
            <<Len(a.conditions), 1, 10>>
      [] op = "insumer_batch_wallet_trust" /\ Has(a, "wallets") ->
            <<Len(a.wallets), 1, 10>>
      [] op = "insumer_configure_nfts" /\ Has(a, "nftCollections") ->
            <<Len(a.nftCollections), 0, 4>>
      [] op = "insumer_configure_tokens" /\ Has(a, "ownToken") ->
            IF IsNull(a.ownToken) THEN <<1, 1, 1>>
            ELSE <<Len(a.ownToken.tiers), 1, 4>>
      [] OTHER -> <<1, 1, 1>>

CountFamilies == {"conditions", "wallets", "collections", "tiers"}

\* C12: a call whose array (conditions and wallets 1..10, nftCollections
\* 0..4, the tiers of a token configuration 1..4) is shorter than the minimum
\* or longer than the maximum is rejected and issues no request; in the runs
\* where only the count varies, a count at either end of the range is not
\* rejected and, with a key configured, is dispatched with one request.
C12_CountsEnforcedBeforeDispatch ==
    \A i \in Invocations :
        Called(i) =>
            LET c == Counted(inv[i].op, inv[i].args) IN
            /\ (c[1] < c[2] \/ c[1] > c[3]) =>
                   (inv[i].pc = "rejected" /\ inv[i].sent = 0)
            /\ (workload \in CountFamilies /\ c[1] \in {c[2], c[3]}) =>
                   /\ inv[i].pc # "rejected"
                   /\ apiKey # "" => Sent(i)

C12_Witness ==
    \E i, j \in Invocations :
        /\ inv[i].op = "insumer_attest" /\ Len(inv[i].args.conditions) = 10
        /\ Sent(i) /\ inv[i].pc = "returned"
        /\ inv[j].op = "insumer_attest" /\ Len(inv[j].args.conditions) = 11
        /\ inv[j].pc = "rejected" /\ inv[j].sent = 0

-----------------------------------------------------------------------------
(* C13 *)

\* a chain identifier given as a string other than the two chain names
ForeignChainName(v) == v.t = "str" /\ v.s \notin {SOLANA, XRPL}

\* the call supplies, for a field with an enumerated set of values, a value
\* that is not in the set
OutOfSet(op, a) ==
    \/ /\ op = "insumer_configure_settings" /\ Has(a, "discountMode")
       /\ a.discountMode \notin {HIGHEST, STACK}
    \/ /\ op \in {"insumer_attest", "insumer_wallet_trust",
                  "insumer_batch_wallet_trust"}
       /\ Has(a, "proof") /\ a.proof # MERKLE
    \/ /\ op = "insumer_attest" /\ Has(a, "conditions")
       /\ \E k \in DOMAIN a.conditions :
              \/ /\ Has(a.conditions[k], "type")
                 /\ a.conditions[k].type \notin
                        {TOKEN_BALANCE, NFT_OWNERSHIP, EAS_ATTESTATION, FARCASTER_ID}
              \/ /\ Has(a.conditions[k], "chainId")
                 /\ ForeignChainName(a.conditions[k].chainId)
    \/ /\ op = "insumer_list_tokens" /\ Has(a, "chain")
       /\ ForeignChainName(a.chain)

-----------------------------------------------------------------------------
(* C14 *)

OnboardingSet ==
    {JNum(n) : n \in {1, 56, 8453, 43114, 137, 42161, 10, 88888, 1868, 98866, 480}}
        \cup {JStr(SOLANA), JStr(XRPL)}

SettlementSet ==
    {JNum(n) : n \in {1, 8453, 137, 42161, 10, 56, 43114}}
        \cup {JStr(SOLANA), JStr(XRPL)}

\* the chain identifiers in the token and NFT configurations of an object
ConfigChains(a) ==
    (IF Has(a, "ownToken") /\ ~IsNull(a.ownToken) THEN {a.ownToken.chainId} ELSE {})
    \cup (IF Has(a, "partnerTokens")
            THEN {a.partnerTokens[k].chainId : k \in DOMAIN a.partnerTokens}
            ELSE {})
    \cup (IF Has(a, "nftCollections")
            THEN {a.nftCollections[k].chainId : k \in DOMAIN a.nftCollections}
            ELSE {})

\* the chain identifiers of a payment: chainId, or usdcPayment.preferredChainId
PaymentChains(a) ==
    (IF Has(a, "chainId") THEN {a.chainId} ELSE {})
    \cup (IF /\ Has(a, "usdcPayment") /\ ~IsNull(a.usdcPayment)
             /\ Has(a.usdcPayment, "preferredChainId")
            THEN {a.usdcPayment.preferredChainId} ELSE {})

ConfigOps == {"insumer_configure_tokens", "insumer_configure_nfts"}

PaymentOps ==
    {"insumer_buy_credits", "insumer_confirm_payment",
     "insumer_buy_merchant_credits", "insumer_configure_settings"}

\* the object a request body serialises
BodyObject(r) == [f \in BodyKeys(r) |-> (CHOOSE m \in r.body : m[1] = f)[2]]

\* a string of decimal digits with no leading zero
IsDecimal(s) ==
    /\ s # <<>> /\ s[1] # "0"
    /\ \A k \in DOMAIN s : s[k] \in {"0","1","2","3","4","5","6","7","8","9"}

\* the chain a supplied value denotes: a decimal string denotes its number
Denoted(v) == IF v.t = "str" /\ IsDecimal(v.s) THEN JNum(Number(v.s)) ELSE v

-----------------------------------------------------------------------------
(* C15 *)

\* a positive integer, or one of the two ledger names
PositiveOrLedger(v) ==
    \/ v.t = "num" /\ v.n > 0
    \/ v \in {JStr(SOLANA), JStr(XRPL)}

\* the general chain identifiers a call supplies: the chain filter of
\* insumer_list_tokens, the chainId of each condition of insumer_attest
GeneralChains(op, a) ==
    CASE op = "insumer_list_tokens" ->
            IF Has(a, "chain") THEN {a.chain} ELSE {}
      [] op = "insumer_attest" /\ Has(a, "conditions") ->
            {a.conditions[k].chainId :
                k \in {n \in DOMAIN a.conditions : Has(a.conditions[n], "chainId")}}
      [] OTHER -> {}

\* C15: a call of insumer_list_tokens or insumer_attest that is not rejected
\* supplies, as general chain identifiers, only positive integers and the
\* names solana and xrpl (zero, negative and non-integer numbers and other
\* strings are rejected and issue no request).
C15_GeneralChainPositiveOrLedger ==
    \A i \in Invocations :
        Called(i) =>
            \/ inv[i].pc = "rejected" /\ inv[i].sent = 0
            \/ \A v \in GeneralChains(inv[i].op, inv[i].args) : PositiveOrLedger(v)

-----------------------------------------------------------------------------
(* C16 *)

\* the prefix INSR- followed by exactly five characters, each an uppercase
\* letter or a digit
PrefixAndFive(s) ==
    /\ Len(s) = 5 + 5
    /\ s[1] = "I" /\ s[2] = "N" /\ s[3] = "S" /\ s[4] = "R" /\ s[5] = "-"
    /\ {s[k] : k \in 6..Len(s)} \subseteq UpperAlnum

\* C16: insumer_validate_code called with a code that is not INSR- followed
\* by exactly five uppercase letters or digits is rejected and issues no
\* request; called with such a code it issues, with or without an API key,
\* exactly one request, a GET of the base URL followed by /codes/ and the
\* code as given, with no X-API-Key header and no body, and what it returns
\* is the upstream body as text, never flagged.
C16_ValidateCode ==
    \A i \in Invocations :
        (Called(i) /\ inv[i].op = "insumer_validate_code"
                   /\ Has(inv[i].args, "code")) =>
            IF PrefixAndFive(inv[i].args.code)
                THEN /\ inv[i].pc # "rejected"
                     /\ Sent(i)
                     /\ inv[i].req.method = "GET"
                     /\ inv[i].req.url = API_BASE \o <<"/codes/">> \o inv[i].args.code
                     /\ "X-API-Key" \notin HeaderNames(inv[i].req)
                     /\ ~inv[i].req.hasBody
                     /\ inv[i].pc = "returned" =>
                            /\ inv[i].result.kind = "content"
                            /\ JSONParse(inv[i].result.text) = inv[i].body
                            /\ ~inv[i].result.isError
                ELSE inv[i].pc = "rejected" /\ inv[i].sent = 0

C16_Witness ==
    \E i, j \in Invocations :
        /\ inv[i].op = "insumer_validate_code" /\ inv[i].args = [code |-> CODE]
        /\ inv[i].pc = "returned" /\ Sent(i) /\ inv[i].body = OkMetaBody
        /\ inv[i].req.url[Len(inv[i].req.url)] = "C"
        /\ inv[j].op = "insumer_validate_code"
        /\ inv[j].args = [code |-> <<"I","N","S","R","-","A","B","1","2","C","D">>]
        /\ inv[j].pc = "rejected"

-----------------------------------------------------------------------------
(* C17 *)

\* the query string of a URL has the parameter name=value, value one numeral
HasParam(url, name, value) ==
    \E k \in 1..(Len(url) - 2) :
        url[k] = name /\ url[k + 1] = "=" /\ url[k + 2] = value

\* a limit outside 1..200 or a negative offset
PagingOutOfRange(a) ==
    \/ Has(a, "limit") /\ (a.limit > 200 \/ a.limit < 1)
    \/ Has(a, "offset") /\ a.offset < 0

\* C17: insumer_list_merchants called with a limit above 200 or below 1, or
\* with a negative offset, is rejected and issues no request; called with a
\* limit in 1..200 and an offset of 0 or more (its other fields acceptable,
\* a key configured) it issues a request whose query string carries limit
\* and offset with the values given, offset 0 included.
C17_PagingRange ==
    \A i \in Invocations :
        (Called(i) /\ inv[i].op = "insumer_list_merchants") =>
            LET a == inv[i].args IN
            /\ PagingOutOfRange(a) => (inv[i].pc = "rejected" /\ inv[i].sent = 0)
            /\ (/\ ~PagingOutOfRange(a)
                /\ Has(a, "verified") => a.verified \in {STR_TRUE, STR_FALSE}
                /\ apiKey # "") =>
                   /\ Sent(i)
                   /\ Has(a, "limit") =>
                          HasParam(inv[i].req.url, "limit", ToString(a.limit))
                   /\ Has(a, "offset") =>
                          HasParam(inv[i].req.url, "offset", ToString(a.offset))

C17_Witness ==
    \E i, j \in Invocations :
        /\ inv[i].op = "insumer_list_merchants"
        /\ inv[i].args = [limit |-> 200, offset |-> 0]
        /\ Sent(i)
        /\ HasParam(inv[i].req.url, "limit", "200")
        /\ HasParam(inv[i].req.url, "offset", "0")
        /\ inv[j].op = "insumer_list_merchants"
        /\ inv[j].args = [token |-> UNI, limit |-> 250]
        /\ inv[j].pc = "rejected" /\ inv[j].sent = 0

-----------------------------------------------------------------------------
(* C18 *)

\* the field of a tool declared .nullable().optional()
NullableField(op) ==
    IF op = "insumer_configure_tokens" THEN "ownToken" ELSE "usdcPayment"

NullableOps == {"insumer_configure_tokens", "insumer_configure_settings"}

SuppliesNull(i) ==
    /\ Has(inv[i].args, NullableField(inv[i].op))
    /\ IsNull(inv[i].args[NullableField(inv[i].op)])

\* C18: for insumer_configure_tokens (ownToken) and
\* insumer_configure_settings (usdcPayment), a request made for a call that
\* supplies the field as null has the key in its body with the value null, a
\* request made for a call that leaves the field out has no such key, and
\* the bodies of two such requests of one tool are never equal.
C18_NullIsNotAbsent ==
    \A i \in Invocations :
        (inv[i].op \in NullableOps /\ Sent(i)) =>
            /\ SuppliesNull(i) =>
                   <<NullableField(inv[i].op), Null>> \in inv[i].req.body
            /\ ~Has(inv[i].args, NullableField(inv[i].op)) =>
                   NullableField(inv[i].op) \notin BodyKeys(inv[i].req)
            /\ \A j \in Invocations :
                   (/\ inv[j].op = inv[i].op /\ Sent(j)
                    /\ SuppliesNull(i)
                    /\ ~Has(inv[j].args, NullableField(inv[j].op))) =>
                       inv[i].req.body # inv[j].req.body

C18_Witness ==
    \E i, j \in Invocations :
        /\ inv[i].op = "insumer_configure_tokens" /\ Sent(i)
        /\ inv[i].args = [id |-> M1, ownToken |-> Null]
        /\ inv[i].req.body = {<<"ownToken", Null>>}
        /\ inv[j].op = "insumer_configure_tokens" /\ Sent(j)
        /\ inv[j].args = [id |-> M1]
        /\ inv[j].req.hasBody /\ inv[j].req.body = {}

-----------------------------------------------------------------------------
(* C19 *)

\* C19: no step changes the API key read at start-up; the URL of every
\* request begins with the base URL; every request of a tool that goes
\* through apiCall carries the header X-API-Key with that key, which is not
\* empty; and when the key is empty the warning is on stderr and the process
\* is running unless the transport connection failed.
C19_CredentialFixedAtStartup ==
    /\ [][apiKey' = apiKey]_vars
    /\ [](\A i \in Invocations :
              Sent(i) =>
                  /\ SubSeq(inv[i].req.url, 1, Len(API_BASE)) = API_BASE
                  /\ inv[i].op \in AuthOps =>
                         /\ apiKey # ""
                         /\ \A h \in inv[i].req.headers :
                                h[1] = "X-API-Key" => h[2] = apiKey
                         /\ "X-API-Key" \in HeaderNames(inv[i].req))
    /\ [](apiKey = "" =>
              /\ proc.stderr[1] = MissingKeyWarning
              /\ proc.running \/ proc.connect = "failed")

C19_Witness ==
    /\ apiKey = "insr_live_k"
    /\ proc.running /\ proc.stderr = <<>>
    /\ \E i, j \in Invocations :
           /\ inv[i].op = "insumer_credits" /\ Sent(i)
           /\ inv[i].req.url = API_BASE \o <<"/credits">>
           /\ inv[i].req.headers =
                  {<<"Content-Type", "application/json">>,
                   <<"X-API-Key", "insr_live_k">>}
           /\ inv[j].op = "insumer_buy_credits" /\ Sent(j)
           /\ <<"X-API-Key", "insr_live_k">> \in inv[j].req.headers

-----------------------------------------------------------------------------
(* C20 *)

\* C20: once the transport connection has failed the process is not
\* running, its exit code is not zero and the failure is on stderr; a
\* running process is either still awaiting the connection, with no
\* invocation taken, or connected; and a process that exited took none.
C20_ConnectFailureExits ==
    /\ proc.connect = "failed" =>
           /\ ~proc.running
           /\ proc.exitCode # 0
           /\ FatalError \in RangeOf(proc.stderr)
    /\ (proc.running /\ proc.connect # "ok") =>
           /\ proc.connect = "pending"
           /\ \A i \in Invocations : ~Called(i)
    /\ ~proc.running => \A i \in Invocations : ~Called(i)

C20_Witness ==
    /\ proc.connect = "failed"
    /\ ~proc.running
    /\ proc.exitCode = 1
    /\ proc.stderr[Len(proc.stderr)] = FatalError

-----------------------------------------------------------------------------
(* C21 *)

\* the flag a result carries for a body, by tool
FlagFor(op, ms) == op \in FormatOps /\ ~OkTruthy(ms)

\* C21: whatever the other invocations are doing, the request of an
\* invocation is the one its own tool and arguments and the start-up key
\* determine (two invocations with the same tool and arguments send equal
\* requests), the result it returns after a request is the text and flag of
\* the body received for that request, a result returned without a request is
\* the missing-key envelope, and no step changes more than one invocation or
\* changes the key.
C21_InvocationsIndependent ==
    /\ [](\A i \in Invocations :
              /\ Sent(i) =>
                     /\ inv[i].req =
                            RequestOf(inv[i].op,
                                      ParsedArgs(inv[i].op, inv[i].args), apiKey)
                     /\ \A j \in Invocations :
                            (/\ Sent(j) /\ inv[j].op = inv[i].op
                             /\ inv[j].args = inv[i].args) =>
                                inv[j].req = inv[i].req
              /\ (inv[i].pc = "returned" /\ Sent(i)) =>
                     /\ JSONParse(inv[i].result.text) = inv[i].body
                     /\ inv[i].result.isError = FlagFor(inv[i].op, inv[i].body)
              /\ (inv[i].pc = "returned" /\ ~Sent(i)) =>
                     /\ apiKey = ""
                     /\ inv[i].body = MissingKeyEnvelope)
    /\ [][/\ apiKey' = apiKey
          /\ \A i, j \in Invocations :
                 (i # j /\ inv'[i] # inv[i]) => inv'[j] = inv[j]]_vars

C21_Witness ==
    \E i, j \in Invocations :
        /\ i < j
        /\ inv[i].pc = "fetching" /\ Sent(i)
        /\ inv[j].pc = "returned" /\ Sent(j)
        /\ inv[i].op = "insumer_check_discount" /\ inv[j].op = "insumer_verify"
        /\ inv[i].req # inv[j].req
        /\ inv[j].body = FailBody /\ inv[j].result.isError

-----------------------------------------------------------------------------
(* C22 *)

\* C22: an invocation whose arguments the schema refuses ends rejected, with
\* the validation rejection as its result and no request, whether or not a
\* key is configured (so never with the missing-key envelope); an invocation
\* that returned after a request has received a response status and a body;
\* and an invocation only moves forward: from idle to rejected, returned
\* (missing key) or fetching, from fetching to reading or threw, from reading
\* to returned or threw, its request never changing once sent.
C22_ValidateDispatchRelay ==
    /\ [](\A i \in Invocations :
              /\ (Called(i) /\ ~Valid(i)) =>
                     /\ inv[i].pc = "rejected"
                     /\ inv[i].result = Rejection
                     /\ inv[i].sent = 0
                     /\ inv[i].body # MissingKeyEnvelope
              /\ (inv[i].pc = "returned" /\ Sent(i)) =>
                     /\ inv[i].status \in HttpStatuses
                     /\ inv[i].body \in UpstreamBodies
              /\ inv[i].pc \in {"fetching", "reading"} =>
                     (Sent(i) /\ inv[i].result = NoResult))
    /\ [][\A i \in Invocations :
              inv'[i] # inv[i] =>
                  /\ <<inv[i].pc, inv'[i].pc>> \in
                         {<<"idle", "rejected">>, <<"idle", "returned">>,
                          <<"idle", "fetching">>, <<"fetching", "reading">>,
                          <<"fetching", "threw">>, <<"reading", "returned">>,
                          <<"reading", "threw">>}
                  /\ inv[i].pc # "idle" =>
                         /\ inv'[i].req = inv[i].req
                         /\ inv'[i].sent = inv[i].sent]_vars

C22_Witness ==
    /\ apiKey = ""
    /\ \E i, j \in Invocations :
           /\ inv[i].op = "insumer_list_merchants"
           /\ inv[i].args = [token |-> UNI, limit |-> 250]
           /\ inv[i].pc = "rejected" /\ inv[i].result = Rejection
           /\ inv[j].op = "insumer_list_merchants" /\ inv[j].args = EmptyObj
           /\ inv[j].pc = "returned" /\ inv[j].body = MissingKeyEnvelope

-----------------------------------------------------------------------------
(* C23 *)

\* the tools that embed an identifier of the caller in the path
IdRouteOps ==
    PathIdOps \cup {"insumer_get_merchant", "insumer_merchant_status",
                    "insumer_publish_directory", "insumer_verify_domain",
                    "insumer_validate_code"}

\* the segment before the identifier, and the segments after it
RouteHead(op) == IF op = "insumer_validate_code" THEN "codes" ELSE "merchants"

RouteTail(op) ==
    CASE op = "insumer_merchant_status" -> << <<"status">> >>
      [] op = "insumer_configure_tokens" -> << <<"tokens">> >>
      [] op = "insumer_configure_nfts" -> << <<"nfts">> >>
      [] op = "insumer_configure_settings" -> << <<"settings">> >>
      [] op = "insumer_publish_directory" -> << <<"directory">> >>
      [] op = "insumer_buy_merchant_credits" -> << <<"credits">> >>
      [] op \in {"insumer_request_domain_verification", "insumer_verify_domain"} ->
            << <<"domain-verification">> >>
      [] OTHER -> <<>>

\* the request of invocation i follows the route of its tool: the method of
\* the tool, then v1, the head segment, one segment for the identifier and
\* the tail segments, with no query and no fragment
FollowsRoute(i) ==
    LET w == WirePath(inv[i].req.url) IN
    /\ inv[i].req.method = MethodOf(inv[i].op)
    /\ {"?", "#"} \cap RangeOf(inv[i].req.url) = {}
    /\ Len(w) = 3 + Len(RouteTail(inv[i].op))
    /\ w[1] = <<"v1">>
    /\ w[2] = <<RouteHead(inv[i].op)>>
    /\ SubSeq(w, 4, Len(w)) = RouteTail(inv[i].op)

\* C23: every request of a tool that embeds an identifier in the path has
\* the method, the route and the number of path segments of the tool,
\* whatever the identifier.
C23_IdIsOneSegment ==
    \A i \in Invocations :
        (Sent(i) /\ inv[i].op \in IdRouteOps) => FollowsRoute(i)

\* the part of C23 that holds: an identifier that is neither "." nor ".."
C23_ReservedCharactersStayInside ==
    \A i \in Invocations :
        (/\ Sent(i) /\ inv[i].op \in IdRouteOps
         /\ inv[i].op # "insumer_validate_code"
         /\ inv[i].args.id \notin {<<".">>, <<".", ".">>}) => FollowsRoute(i)

====
